---- MODULE Spec2Model ----
(***************************************************************************)
(* Model of custom_components/openplantbook/uploader.py: the validator     *)
(* get_supported_state_value, the query-window computation and the upload  *)
(* cycle plant_data_upload with its collaborators (registries, recorder,   *)
(* OpenPlantbook API).                                                     *)
(*                                                                         *)
(* Conventions.  Python None is the string NONE where the value is a       *)
(* string, and the empty tuple <<>> where the value is a number (a present *)
(* number v is <<v>>).  Instants are integers counted in ticks, with       *)
(* TicksPerSecond ticks in a second (Python datetimes resolve below the    *)
(* second).  A state's state string is kept as a string; float() is the    *)
(* table FloatTenths, which gives the parsed number in tenths.             *)
(***************************************************************************)
EXTENDS Integers, Sequences, FiniteSets, TLC

\* ------------------------------------------------------------------ bounds

\* Resolution of the clock: ticks in one second.
TicksPerSecond == 2
\* Largest number of devices in the device registry.
MaxDevices == 2
\* Largest number of calls of async_setup_upload_schedule.
MaxSetups == 2
\* Largest number of runs of plant_data_upload the triggers begin.
MaxRuns == 3

\* ------------------------------------------------------- values and units

NONE == "None"

\* Python truthiness of an optional string.
Truthy(s) == s \notin {NONE, ""}

CELSIUS == "°C"
FAHRENHEIT == "°F"
KELVIN == "K"
PERCENTAGE == "%"
LIGHT_LUX == "lx"
MICROSIEMENS_PER_CM == "µS/cm"

\* const.OPB_MEASUREMENTS_TO_UPLOAD: the device classes whose sensors are read.
OPB_MEASUREMENTS_TO_UPLOAD ==
    {"moisture", "illuminance", "conductivity", "temperature", "humidity"}

Seconds(n) == n * TicksPerSecond
Days(n) == n * 86400 * TicksPerSecond

\* round(n / d) as Python 3 rounds: to the nearest integer, ties to even (d > 0).
PyRound(n, d) ==
    LET q == n \div d
        r == n % d
    IN  IF 2 * r < d THEN q
        ELSE IF 2 * r > d THEN q + 1
        ELSE IF q % 2 = 0 THEN q ELSE q + 1

\* The state strings of the model with the number float() reads from each, in
\* tenths.  Every other string ("unknown", "abc", "nan", ...) makes
\* round(float(..)) raise.
FloatTenths ==
    [s \in {"-51", "-50", "0", "0.5", "1.5", "21.4", "37", "55", "70", "70.5",
            "71", "98.6", "100", "101", "150", "-58", "-59", "158", "159",
            "160", "223", "222", "300", "343", "344", "3000", "3001", "5000",
            "200000", "200001", "-1", "34.6", "158.8", "300.6", "343.6"} |->
        CASE s = "-51" -> -510 [] s = "-50" -> -500 [] s = "0" -> 0
          [] s = "0.5" -> 5 [] s = "1.5" -> 15 [] s = "21.4" -> 214
          [] s = "37" -> 370 [] s = "55" -> 550 [] s = "70" -> 700
          [] s = "70.5" -> 705 [] s = "71" -> 710 [] s = "98.6" -> 986
          [] s = "100" -> 1000 [] s = "101" -> 1010 [] s = "150" -> 1500
          [] s = "-58" -> -580 [] s = "-59" -> -590 [] s = "158" -> 1580
          [] s = "159" -> 1590 [] s = "160" -> 1600 [] s = "223" -> 2230
          [] s = "222" -> 2220 [] s = "300" -> 3000 [] s = "343" -> 3430
          [] s = "344" -> 3440 [] s = "3000" -> 30000 [] s = "3001" -> 30010
          [] s = "5000" -> 50000 [] s = "200000" -> 2000000
          [] s = "200001" -> 2000010 [] s = "-1" -> -10
          [] s = "34.6" -> 346 [] s = "158.8" -> 1588 [] s = "300.6" -> 3006
          [] s = "343.6" -> 3436]

IsNumber(s) == s \in DOMAIN FloatTenths

\* ------------------------------------------------------------- validator

\* validate_measurement: the error it leaves in state_error (NONE: no error).
\* unit, measurement and value are the enclosing function's unit_of_measurement,
\* current_measurement and supported_state when it is called.
validate_measurement_NoUpper(unit, measurement, value, supported_unit, value_range) ==
    IF unit # supported_unit THEN measurement
    ELSE IF value < value_range[1] THEN measurement
    ELSE NONE

validate_measurement(unit, measurement, value, supported_unit, value_range) ==
    IF unit # supported_unit THEN measurement
    ELSE IF value < value_range[1] \/ value > value_range[2] THEN measurement
    ELSE NONE

\* get_supported_state_value(state): the pair it returns.  state is a record
\* [state, device_class, unit_of_measurement, last_updated].
get_supported_state_value_Truncates(state) ==
    LET current_measurement == state.device_class
        unit_of_measurement == state.unit_of_measurement
    IN  IF ~IsNumber(state.state)
        THEN [value |-> <<>>, state_error |-> current_measurement]
        ELSE
        LET rounded == PyRound(FloatTenths[state.state], 10)
        IN  CASE current_measurement = "temperature" ->
                 LET conv ==
                       IF unit_of_measurement = FAHRENHEIT
                       THEN [v |-> ((rounded - 32) * 5) \div 9, u |-> CELSIUS]
                       ELSE IF unit_of_measurement = KELVIN
                       THEN [v |-> PyRound(rounded * 100 - 27315, 100),
                             u |-> CELSIUS]
                       ELSE [v |-> rounded, u |-> unit_of_measurement]
                 IN  [value |-> <<conv.v>>,
                      state_error |-> validate_measurement(
                          conv.u, current_measurement, conv.v, "°C", <<-50, 70>>)]
              [] current_measurement = "humidity" ->
                 [value |-> <<rounded>>,
                  state_error |-> validate_measurement(
                      unit_of_measurement, current_measurement, rounded,
                      PERCENTAGE, <<0, 100>>)]
              [] current_measurement = "illuminance" ->
                 [value |-> <<rounded>>,
                  state_error |-> validate_measurement(
                      unit_of_measurement, current_measurement, rounded,
                      LIGHT_LUX, <<0, 200000>>)]
              [] current_measurement = "moisture" ->
                 [value |-> <<rounded>>,
                  state_error |-> validate_measurement(
                      unit_of_measurement, current_measurement, rounded,
                      PERCENTAGE, <<0, 100>>)]
              [] current_measurement = "conductivity" ->
                 [value |-> <<rounded>>,
                  state_error |-> validate_measurement(
                      unit_of_measurement, current_measurement, rounded,
                      MICROSIEMENS_PER_CM, <<0, 3000>>)]
              [] OTHER ->
                 [value |-> <<rounded>>, state_error |-> "device_class"]

get_supported_state_value(state) ==
    LET current_measurement == state.device_class
        unit_of_measurement == state.unit_of_measurement
    IN  IF ~IsNumber(state.state)
        THEN [value |-> <<>>, state_error |-> current_measurement]
        ELSE
        LET rounded == PyRound(FloatTenths[state.state], 10)
        IN  CASE current_measurement = "temperature" ->
                 LET conv ==
                       IF unit_of_measurement = FAHRENHEIT
                       THEN [v |-> PyRound((rounded - 32) * 5, 9), u |-> CELSIUS]
                       ELSE IF unit_of_measurement = KELVIN
                       THEN [v |-> PyRound(rounded * 100 - 27315, 100),
                             u |-> CELSIUS]
                       ELSE [v |-> rounded, u |-> unit_of_measurement]
                 IN  [value |-> <<conv.v>>,
                      state_error |-> validate_measurement(
                          conv.u, current_measurement, conv.v, "°C", <<-50, 70>>)]
              [] current_measurement = "humidity" ->
                 [value |-> <<rounded>>,
                  state_error |-> validate_measurement(
                      unit_of_measurement, current_measurement, rounded,
                      PERCENTAGE, <<0, 100>>)]
              [] current_measurement = "illuminance" ->
                 [value |-> <<rounded>>,
                  state_error |-> validate_measurement(
                      unit_of_measurement, current_measurement, rounded,
                      LIGHT_LUX, <<0, 200000>>)]
              [] current_measurement = "moisture" ->
                 [value |-> <<rounded>>,
                  state_error |-> validate_measurement(
                      unit_of_measurement, current_measurement, rounded,
                      PERCENTAGE, <<0, 100>>)]
              [] current_measurement = "conductivity" ->
                 [value |-> <<rounded>>,
                  state_error |-> validate_measurement(
                      unit_of_measurement, current_measurement, rounded,
                      MICROSIEMENS_PER_CM, <<0, 3000>>)]
              [] OTHER ->
                 [value |-> <<rounded>>, state_error |-> "device_class"]

\* ---------------------------------------------------------- query window

\* latest_data of a registration response: absent (the key is missing, None
\* or ""), a timestamp string parse_datetime reads as instant t, or a string
\* parse_datetime cannot read (it returns None).
LatestAbsent == [kind |-> "absent", t |-> 0]
LatestAt(t) == [kind |-> "ts", t |-> t]
LatestMalformed == [kind |-> "malformed", t |-> 0]

\* The window [start, end) of lines 263-281, for a latest_data that is absent
\* or a readable timestamp; end is the reading of the clock.
QueryWindow_NoSecond(latest_data, now) ==
    IF latest_data.kind = "ts"
    THEN LET start == latest_data.t
         IN  IF now - start > Days(7)
             THEN [start |-> now - Days(7), end |-> now]
             ELSE [start |-> start, end |-> now]
    ELSE [start |-> now - Days(1), end |-> now]

QueryWindow_FirstWeek(latest_data, now) ==
    IF latest_data.kind = "ts"
    THEN LET start == latest_data.t + Seconds(1)
         IN  IF now - start > Days(7)
             THEN [start |-> now - Days(7), end |-> now]
             ELSE [start |-> start, end |-> now]
    ELSE [start |-> now - Days(7), end |-> now]

QueryWindow_Cap8(latest_data, now) ==
    IF latest_data.kind = "ts"
    THEN LET start == latest_data.t + Seconds(1)
         IN  IF now - start > Days(7)
             THEN [start |-> now - Days(8), end |-> now]
             ELSE [start |-> start, end |-> now]
    ELSE [start |-> now - Days(1), end |-> now]

QueryWindow(latest_data, now) ==
    IF latest_data.kind = "ts"
    THEN LET start == latest_data.t + Seconds(1)
         IN  IF now - start > Days(7)
             THEN [start |-> now - Days(7), end |-> now]
             ELSE [start |-> start, end |-> now]
    ELSE [start |-> now - Days(1), end |-> now]

\* ------------------------------------------------------------ the state

VARIABLES
    hass_data,          \* DOMAIN in hass.data
    options,            \* entry.options: the two location flags
    now,                \* dt_util.now(dt.UTC), in ticks
    devices,            \* device_reg.devices, with each device's entity entries
    pc,                 \* position of the run of plant_data_upload
    location,           \* location dict (NONE: key absent)
    plant_devices,      \* the plant devices found at lines 138-142
    i,                  \* index of the current plant device in plant_devices
    plant_entity_id,
    opb_pid,            \* also the value of reg_map[plant_instance_id]
    res,                \* response of the last registration call
    caught_exception,
    latest_data,        \* local of the same name; kind "unbound" before line 259
    window,             \* query_period_start_timestamp, query_period_end_timestamp
    measurements,       \* device class -> records of its TimeSeries
    e,                  \* index of the sensor entry whose history is awaited
    measurement_errors, \* the list of that name of the entry processed last
    jts_doc,            \* the series added to the JtsDocument
    ret,                \* how the run ended
    warnings,           \* warnings logged at lines 378-397
    reg_calls,          \* calls of async_plant_instance_register, in order,
                        \* each with its arguments and what it answered
    search_calls,       \* calls of async_plant_search, likewise
    history_queries,    \* calls of get_significant_states, likewise
    upload_calls,       \* calls of async_plant_data_upload, likewise
    last_state_queries, \* calls of get_last_state_changes, likewise
    state,              \* validator check: the state given
    validated,          \* validator check: << >>, then <<the pair returned>>
    window_in,          \* window check: latest_data and now given
    window_out,         \* window check: << >>, then <<the window computed>>
    setups,             \* calls of async_setup_upload_schedule made so far
    upload_listeners,   \* active async_track_time_interval listeners, each
                        \* named by the setup call that added it
    delayed_calls,      \* pending async_call_later timers, named likewise
    remove_upload_listener, \* hass.data[DOMAIN]["remove_upload_listener"]:
                        \* the listener its callable removes; 0: None or absent
    on_unload,          \* listeners whose removal entry.async_on_unload holds
    started,            \* runs of plant_data_upload begun so far
    runs                \* the runs pending at a suspension point

run_vars == <<hass_data, options, now, devices, pc, location, plant_devices, i,
              plant_entity_id, opb_pid, res, caught_exception, latest_data,
              window, measurements, e, measurement_errors, jts_doc, ret,
              warnings, reg_calls, search_calls, history_queries, upload_calls,
              last_state_queries>>
sched_vars == <<setups, upload_listeners, delayed_calls,
                remove_upload_listener, on_unload, started, runs>>
fn_vars == <<state, validated, window_in, window_out, sched_vars>>
vars == <<run_vars, fn_vars>>

\* ------------------------------------------------- registries and inputs

PID == "Monstera deliciosa"
CorrectedPID == "monstera deliciosa"

\* The entity entries of a device of each shape, in registry order.
Entries(shape, id) ==
    CASE shape = "plant" ->
           << [entity_id |-> <<id, "sensor.battery">>, domain |-> "sensor",
               original_device_class |-> "battery"],
              [entity_id |-> <<id, "plant.plant">>, domain |-> "plant",
               original_device_class |-> NONE],
              [entity_id |-> <<id, "number.max_temperature">>,
               domain |-> "number", original_device_class |-> "temperature"],
              [entity_id |-> <<id, "sensor.temperature">>, domain |-> "sensor",
               original_device_class |-> "temperature"],
              [entity_id |-> <<id, "sensor.humidity">>, domain |-> "sensor",
               original_device_class |-> "humidity"] >>
      [] shape = "noplant" ->
           << [entity_id |-> <<id, "sensor.humidity">>, domain |-> "sensor",
               original_device_class |-> "humidity"] >>
      [] OTHER -> << >>

\* A device of the registry: plant_identifier is '"plant" in str(d.identifiers)'.
Device(shape, id) ==
    [id |-> id,
     plant_identifier |-> shape # "other",
     name_by_user |-> IF shape = "renamed" THEN "My fern" ELSE NONE,
     entries |-> Entries(shape, id)]

DeviceShapes == {"plant", "noplant", "renamed", "other"}

Registries ==
    UNION { { [k \in 1..n |-> Device(f[k], k)] : f \in [1..n -> DeviceShapes] }
            : n \in 0..MaxDevices }

\* The instant the clock shows during a run: a Friday, one tick past the full
\* second (instant 0 is a Monday, 00:00 UTC).
Friday == Days(102) + Seconds(3600) + 1

\* python weekday(): Monday is 0.
Weekday(t) == (t \div Days(1)) % 7

\* latest_data values a registration response carries.
LatestDataSet(t) ==
    { LatestAbsent, LatestMalformed, LatestAt(t - Days(10)) }

CustomId(plant_instance_id) == 100 + plant_instance_id

\* What async_plant_instance_register does: it returns res, raises a
\* ValidationError with the errors given (their codes), or raises another
\* exception.
RegResponses(plant_instance_id, t) ==
    { [kind |-> "ok", wellformed |-> TRUE, id |-> CustomId(plant_instance_id),
       latest_data |-> ld, errors |-> <<>>] : ld \in LatestDataSet(t) }
    \cup
    { [kind |-> "ok", wellformed |-> FALSE, id |-> 0,
       latest_data |-> LatestAbsent, errors |-> <<>>] }
    \cup
    { [kind |-> "ValidationError", wellformed |-> FALSE, id |-> 0,
       latest_data |-> LatestAbsent, errors |-> errs]
        : errs \in { <<>>, <<"invalid_pid">>, <<"not_found">> } }
    \cup
    { [kind |-> "Exception", wellformed |-> FALSE, id |-> 0,
       latest_data |-> LatestAbsent, errors |-> <<>>] }

NoRes == [kind |-> "none", wellformed |-> FALSE, id |-> 0,
          latest_data |-> LatestAbsent, errors |-> <<>>]

\* What async_plant_search does: it raises, or returns count and results.
MatchResult == [pid |-> CorrectedPID, display_pid |-> PID]
OtherResult == [pid |-> "monstera adansonii", display_pid |-> "Monstera adansonii"]
SearchResponses ==
    { [raises |-> TRUE, count |-> 0, results |-> <<>>],
      [raises |-> FALSE, count |-> 0, results |-> <<>>],
      [raises |-> FALSE, count |-> 1, results |-> <<MatchResult>>],
      [raises |-> FALSE, count |-> 1, results |-> <<OtherResult>>],
      [raises |-> FALSE, count |-> 2, results |-> <<MatchResult, OtherResult>>],
      [raises |-> FALSE, count |-> 1, results |-> <<>>] }

\* What get_last_state_changes gives for the plant entity: no state recorded,
\* the last state with or without the species_original attribute, or an
\* exception of the recorder.
LastStateResponses ==
    { [kind |-> "empty", species_original |-> NONE],
      [kind |-> "state", species_original |-> PID],
      [kind |-> "state", species_original |-> NONE],
      [kind |-> "raises", species_original |-> NONE] }

St(s, dc, unit, at) ==
    [state |-> s, device_class |-> dc, unit_of_measurement |-> unit,
     last_updated |-> at]

\* The histories get_significant_states returns for a sensor entry and a
\* window starting at start.  The first state of a history may be the one
\* carried forward to the start of the window; a state's device_class may
\* differ from the entry's original_device_class (the user overrode it).
Histories(entry, start) ==
    LET in1 == start + Seconds(60)
        in2 == start + Seconds(120)
        in3 == start + Seconds(180)
    IN  IF entry.original_device_class = "temperature"
        THEN { << St("98.6", "temperature", FAHRENHEIT, in1),
                  St("98.6", "temperature", FAHRENHEIT, in2) >>,
               << St("21.4", "temperature", CELSIUS, start),
                  St("300", "temperature", KELVIN, in1) >>,
               << St("unknown", "temperature", CELSIUS, in1),
                  St("abc", "temperature", CELSIUS, in1),
                  St("5000", "illuminance", LIGHT_LUX, in2),
                  St("abc", NONE, NONE, in3) >> }
        ELSE { << St("150", "humidity", PERCENTAGE, in1) >>,
               << St("55", "humidity", PERCENTAGE, in1),
                  St("unavailable", "humidity", PERCENTAGE, in2) >> }

\* ------------------------------------------------------- series assembly

MeasurementOrder ==
    <<"temperature", "moisture", "conductivity", "illuminance", "humidity">>

SeriesName(device_class) ==
    CASE device_class = "temperature" -> "temp"
      [] device_class = "moisture" -> "soil_moist"
      [] device_class = "conductivity" -> "soil_ec"
      [] device_class = "illuminance" -> "light_lux"
      [] device_class = "humidity" -> "env_humid"

EmptyMeasurements == [dc \in OPB_MEASUREMENTS_TO_UPLOAD |-> << >>]

\* Line 301: the entry is a sensor of a supported measurement.
IsUploadedSensor(entry) ==
    entry.domain = "sensor"
    /\ entry.original_device_class \in OPB_MEASUREMENTS_TO_UPLOAD

\* The index of the first entry at or after k whose history is queried; 0 when
\* there is none.
RECURSIVE NextSensor(_, _)
NextSensor(entries, k) ==
    IF k > Len(entries) THEN 0
    ELSE IF IsUploadedSensor(entries[k]) THEN k
    ELSE NextSensor(entries, k + 1)

\* The index of the first entry of the plant domain; 0 when there is none.
RECURSIVE PlantEntry(_, _)
PlantEntry(entries, k) ==
    IF k > Len(entries) THEN 0
    ELSE IF entries[k].domain = "plant" THEN k
    ELSE PlantEntry(entries, k + 1)

\* Lines 320-327: the state is left out before it is validated.
SkipsState_NoStart(st, start) ==
    st.state \in {"unknown", "unavailable"}

SkipsState(st, start) ==
    st.state \in {"unknown", "unavailable"} \/ st.last_updated = start

\* Lines 317-351 from state k of the history on: acc.records are the records of
\* the entry's TimeSeries, acc.errors is measurement_errors.
RECURSIVE AssembleStates(_, _, _, _)
AssembleStates(history, k, start, acc) ==
    IF k > Len(history) THEN acc
    ELSE
    LET st == history[k]
        got == get_supported_state_value(st)
    IN  IF SkipsState(st, start)
        THEN AssembleStates(history, k + 1, start, acc)
        ELSE IF Truthy(got.state_error)
        THEN AssembleStates(history, k + 1, start,
                 [acc EXCEPT !.errors =
                     IF \E j \in 1..Len(@) : @[j] = got.state_error
                     THEN @ ELSE Append(@, got.state_error)])
        ELSE AssembleStates(history, k + 1, start,
                 [acc EXCEPT !.records =
                     Append(@, [ts |-> st.last_updated, value |-> got.value])])

\* Lines 360-363: the series of the plant that hold a record, in the order of
\* the measurements dict.
RECURSIVE NonEmptySeries_All(_, _, _)
NonEmptySeries_All(ms, custom_id, k) ==
    IF k > Len(MeasurementOrder) THEN << >>
    ELSE LET dc == MeasurementOrder[k]
         IN  << [identifier |-> custom_id, name |-> SeriesName(dc),
                 records |-> ms[dc]] >>
             \o NonEmptySeries_All(ms, custom_id, k + 1)

RECURSIVE NonEmptySeries(_, _, _)
NonEmptySeries(ms, custom_id, k) ==
    IF k > Len(MeasurementOrder) THEN << >>
    ELSE LET dc == MeasurementOrder[k]
             rest == NonEmptySeries(ms, custom_id, k + 1)
         IN  IF Len(ms[dc]) # 0
             THEN << [identifier |-> custom_id, name |-> SeriesName(dc),
                      records |-> ms[dc]] >> \o rest
             ELSE rest

\* Line 365: the document is uploaded.
HasPayload_Always(doc) == Len(doc) >= 0

HasPayload(doc) == Len(doc) > 0

\* Lines 212-213: the search result lets the registration be retried (a count
\* of 1 with no result raises IndexError, which line 232 catches: no retry).
FallbackMatches_AnyCount(search_res, pid) ==
    search_res.count >= 1
    /\ Len(search_res.results) >= 1
    /\ pid = search_res.results[1].display_pid

FallbackMatches(search_res, pid) ==
    search_res.count = 1
    /\ Len(search_res.results) >= 1
    /\ pid = search_res.results[1].display_pid

\* ------------------------------------------------------------------ Init

Unbound == [kind |-> "unbound", t |-> 0]
Pending == [kind |-> "pending", result |-> FALSE, exception |-> NONE]
ReturnsNone == [kind |-> "none", result |-> FALSE, exception |-> NONE]
Returns(r) == [kind |-> "result", result |-> r, exception |-> NONE]
Raises(exc) == [kind |-> "raised", result |-> FALSE, exception |-> exc]

NoState == St("", NONE, NONE, 0)
NoWindowIn == [latest_data |-> LatestAbsent, now |-> 0]
NoWindow == [start |-> 0, end |-> 0]

\* The schedule before async_setup_upload_schedule is called.
NoSchedule ==
    /\ setups = 0
    /\ upload_listeners = {}
    /\ delayed_calls = {}
    /\ remove_upload_listener = 0
    /\ on_unload = {}
    /\ started = 0
    /\ runs = {}

\* The state when plant_data_upload is called, for options, a clock and a
\* device registry among those given.
RunInit(option_set, now_set, registry_set) ==
    /\ hass_data \in BOOLEAN
    /\ options \in option_set
    /\ now \in now_set
    /\ devices \in registry_set
    /\ pc = "called"
    /\ location = [country |-> NONE, lon |-> NONE, lat |-> NONE]
    /\ plant_devices = << >>
    /\ i = 0
    /\ plant_entity_id = NONE
    /\ opb_pid = NONE
    /\ res = NoRes
    /\ caught_exception = NONE
    /\ latest_data = Unbound
    /\ window = NoWindow
    /\ measurements = EmptyMeasurements
    /\ e = 0
    /\ measurement_errors = << >>
    /\ jts_doc = << >>
    /\ ret = Pending
    /\ warnings = {}
    /\ reg_calls = << >>
    /\ search_calls = << >>
    /\ history_queries = << >>
    /\ upload_calls = << >>
    /\ last_state_queries = << >>

Init ==
    /\ RunInit({[country |-> TRUE, coord |-> FALSE]}, {Friday}, Registries)
    /\ state = NoState
    /\ validated = << >>
    /\ window_in = NoWindowIn
    /\ window_out = << >>
    /\ NoSchedule

\* --------------------------------------------------- plant_data_upload

env_vars == <<hass_data, options, now, devices>>
call_logs == <<reg_calls, search_calls, history_queries, upload_calls,
               last_state_queries>>

HassConfig == [country |-> "AU", longitude |-> "151.21", latitude |-> "-33.87"]

\* Line 141: the device is one of the Plant component and was not renamed.
IsPlantDevice(d) == d.plant_identifier /\ d.name_by_user = NONE

\* Lines 126-131: the location sent with a registration.
Location_Always(opts) ==
    [country |-> HassConfig.country,
     lon |-> HassConfig.longitude,
     lat |-> HassConfig.latitude]

Location(opts) ==
    [country |-> IF opts.country THEN HassConfig.country ELSE NONE,
     lon |-> IF opts.coord THEN HassConfig.longitude ELSE NONE,
     lat |-> IF opts.coord THEN HassConfig.latitude ELSE NONE]

\* A call of async_plant_instance_register: its arguments and its response.
RegCall(plant_instance_id, pid, loc, r) ==
    [plant |-> plant_instance_id, pid |-> pid, location_country |-> loc.country,
     location_lon |-> loc.lon, location_lat |-> loc.lat, response |-> r]

\* Lines 113-145: the run starts.
Start ==
    /\ pc = "called"
    /\ IF ~hass_data
       THEN /\ pc' = "raised"
            /\ ret' = Raises("OpenPlantbookException")
            /\ UNCHANGED <<location, plant_devices, i>>
       ELSE /\ location' = Location(options)
            /\ plant_devices' = SelectSeq(devices, IsPlantDevice)
            /\ i' = 1
            /\ pc' = "loop"
            /\ ret' = ret
    /\ UNCHANGED <<env_vars, call_logs, fn_vars, plant_entity_id, opb_pid, res,
                   caught_exception, latest_data, window, measurements, e,
                   measurement_errors, jts_doc, warnings>>

\* Lines 148-174, up to the query of the plant entity's last state: the next
\* plant device is taken, or the loop ends.
NextPlant ==
    /\ pc = "loop"
    /\ IF i > Len(plant_devices)
       THEN /\ pc' = "after_loop"
            /\ UNCHANGED <<i, plant_entity_id>>
       ELSE LET entries == plant_devices[i].entries
                k == PlantEntry(entries, 1)
            IN  IF k = 0
                THEN /\ plant_entity_id' = NONE
                     /\ i' = i + 1
                     /\ pc' = "loop"
                ELSE /\ plant_entity_id' = entries[k].entity_id
                     /\ i' = i
                     /\ pc' = "last_state"
    /\ UNCHANGED <<env_vars, call_logs, fn_vars, location, plant_devices,
                   opb_pid, res, caught_exception, latest_data, window,
                   measurements, e, measurement_errors, jts_doc, ret, warnings>>

\* Line 171: no Config-state was found for the plant device.
ConfigStateMissing_EntityOnly(plant_device_state, entity_id) ==
    entity_id = NONE

ConfigStateMissing(plant_device_state, entity_id) ==
    plant_device_state.kind = "empty" \/ entity_id = NONE

\* Lines 163-190: get_last_state_changes returns (or raises).
LastStateReturns ==
    /\ pc = "last_state"
    /\ \E r \in LastStateResponses :
        /\ last_state_queries' = Append(last_state_queries,
                [plant |-> plant_devices[i].id, entity_id |-> plant_entity_id,
                 response |-> r])
        /\
         CASE r.kind = "raises" ->
                /\ pc' = "raised"
                /\ ret' = Raises("RecorderError")
                /\ UNCHANGED <<i, opb_pid, res, caught_exception>>
           [] ConfigStateMissing(r, plant_entity_id) ->
                /\ pc' = "loop"
                /\ i' = i + 1
                /\ UNCHANGED <<ret, opb_pid, res, caught_exception>>
           [] r.kind = "state" /\ r.species_original = NONE ->
                /\ pc' = "raised"
                /\ ret' = Raises("KeyError")
                /\ UNCHANGED <<i, opb_pid, res, caught_exception>>
           [] OTHER ->
                /\ opb_pid' = r.species_original
                /\ res' = NoRes
                /\ caught_exception' = NONE
                /\ pc' = "register"
                /\ UNCHANGED <<i, ret>>
    /\ UNCHANGED <<env_vars, fn_vars, reg_calls, search_calls, history_queries,
                   upload_calls, location, plant_devices, plant_entity_id,
                   latest_data, window, measurements, e, measurement_errors,
                   jts_doc, warnings>>

\* Lines 191-204 and 236-245: the first registration returns or raises.
RegisterReturns ==
    /\ pc = "register"
    /\ \E r \in RegResponses(plant_devices[i].id, now) :
        /\ reg_calls' = Append(reg_calls,
                RegCall(plant_devices[i].id, opb_pid, location, r))
        /\
         CASE r.kind = "ok" ->
                /\ res' = r
                /\ pc' = "registered"
                /\ UNCHANGED <<caught_exception, i, ret>>
           [] r.kind = "ValidationError" ->
                /\ caught_exception' = "ValidationError"
                /\ res' = res
                /\ IF r.errors = << >>
                   THEN /\ pc' = "raised"
                        /\ ret' = Raises("IndexError")
                        /\ i' = i
                   ELSE IF r.errors[1] = "invalid_pid"
                   THEN /\ pc' = "search"
                        /\ UNCHANGED <<i, ret>>
                   ELSE /\ pc' = "loop"
                        /\ i' = i + 1
                        /\ ret' = ret
           [] OTHER ->
                /\ caught_exception' = "Exception"
                /\ pc' = "loop"
                /\ i' = i + 1
                /\ UNCHANGED <<res, ret>>
    /\ UNCHANGED <<env_vars, fn_vars, search_calls, history_queries,
                   upload_calls, last_state_queries, location, plant_devices, plant_entity_id,
                   opb_pid, latest_data, window, measurements, e,
                   measurement_errors, jts_doc, warnings>>

\* Lines 207-216 and 232-245: the search returns or raises.
SearchReturns ==
    /\ pc = "search"
    /\ \E r \in SearchResponses :
        /\ search_calls' = Append(search_calls,
                [plant |-> plant_devices[i].id, search_text |-> opb_pid,
                 response |-> r])
        /\
         IF ~r.raises /\ FallbackMatches(r, opb_pid)
         THEN /\ opb_pid' = r.results[1].pid
              /\ pc' = "register_retry"
              /\ i' = i
         ELSE /\ pc' = "loop"
              /\ i' = i + 1
              /\ opb_pid' = opb_pid
    /\ UNCHANGED <<env_vars, fn_vars, reg_calls, history_queries, upload_calls,
                   last_state_queries, location, plant_devices,
                   plant_entity_id, res,
                   caught_exception, latest_data, window, measurements, e,
                   measurement_errors, jts_doc, ret, warnings>>

\* Lines 218-245: the retried registration returns or raises.
RetryReturns_SearchesAgain ==
    /\ pc = "register_retry"
    /\ \E r \in RegResponses(plant_devices[i].id, now) :
        /\ reg_calls' = Append(reg_calls,
                RegCall(plant_devices[i].id, opb_pid, location, r))
        /\
         IF r.kind = "ok"
         THEN /\ res' = r
              /\ caught_exception' = NONE
              /\ pc' = "registered"
              /\ i' = i
         ELSE /\ pc' = "search"
              /\ i' = i
              /\ UNCHANGED <<res, caught_exception>>
    /\ UNCHANGED <<env_vars, fn_vars, search_calls, history_queries,
                   upload_calls, last_state_queries, location, plant_devices, plant_entity_id,
                   opb_pid, latest_data, window, measurements, e,
                   measurement_errors, jts_doc, ret, warnings>>

RetryReturns ==
    /\ pc = "register_retry"
    /\ \E r \in RegResponses(plant_devices[i].id, now) :
        /\ reg_calls' = Append(reg_calls,
                RegCall(plant_devices[i].id, opb_pid, location, r))
        /\
         IF r.kind = "ok"
         THEN /\ res' = r
              /\ caught_exception' = NONE
              /\ pc' = "registered"
              /\ i' = i
         ELSE /\ pc' = "loop"
              /\ i' = i + 1
              /\ UNCHANGED <<res, caught_exception>>
    /\ UNCHANGED <<env_vars, fn_vars, search_calls, history_queries,
                   upload_calls, last_state_queries, location, plant_devices, plant_entity_id,
                   opb_pid, latest_data, window, measurements, e,
                   measurement_errors, jts_doc, ret, warnings>>

\* Lines 363-364 and the end of an iteration: the plant's series that hold a
\* record are added to the document and the loop goes on.
PlantDone(ms) ==
    /\ jts_doc' = jts_doc \o NonEmptySeries(ms, res.id, 1)
    /\ i' = i + 1
    /\ e' = 0
    /\ pc' = "loop"

\* Lines 247-301, up to the first history query: the response is read and the
\* query window computed.
ParseResponse ==
    /\ pc = "registered"
    /\ IF ~res.wellformed
       THEN /\ pc' = "loop"
            /\ i' = i + 1
            /\ UNCHANGED <<latest_data, window, measurements, e, jts_doc, ret>>
       ELSE /\ latest_data' = res.latest_data
            /\ IF res.latest_data.kind = "malformed"
               THEN /\ pc' = "raised"
                    /\ ret' = Raises("AttributeError")
                    /\ UNCHANGED <<i, window, measurements, e, jts_doc>>
               ELSE /\ window' = QueryWindow(res.latest_data, now)
                    /\ measurements' = EmptyMeasurements
                    /\ ret' = ret
                    /\ LET k == NextSensor(plant_devices[i].entries, 1)
                       IN  IF k = 0
                           THEN PlantDone(EmptyMeasurements)
                           ELSE /\ e' = k
                                /\ pc' = "history"
                                /\ UNCHANGED <<i, jts_doc>>
    /\ UNCHANGED <<env_vars, call_logs, fn_vars, location, plant_devices,
                   plant_entity_id, opb_pid, res, caught_exception,
                   measurement_errors, warnings>>

\* A call of get_significant_states for a sensor entry: its arguments and what
\* it answered.
HistoryQuery(plant_instance_id, entry, w, raises, history) ==
    [plant |-> plant_instance_id, entity_id |-> entry.entity_id,
     original_device_class |-> entry.original_device_class,
     start |-> w.start, end |-> w.end, raises |-> raises, history |-> history]

\* Lines 303-363: get_significant_states returns for entry e (or raises); its
\* states are validated and inserted, then the next sensor is queried or the
\* plant is done.
HistoryReturns ==
    /\ pc = "history"
    /\ LET entry == plant_devices[i].entries[e]
       IN
       \/ /\ history_queries' = Append(history_queries,
                 HistoryQuery(plant_devices[i].id, entry, window, TRUE, << >>))
          /\ pc' = "raised"
          /\ ret' = Raises("RecorderError")
          /\ UNCHANGED <<i, e, measurements, measurement_errors, jts_doc>>
       \/ \E history \in Histories(entry, window.start) :
            /\ history_queries' = Append(history_queries,
                 HistoryQuery(plant_devices[i].id, entry, window, FALSE, history))
            /\ LET acc == AssembleStates(history, 1, window.start,
                              [records |-> measurements[entry.original_device_class],
                               errors |-> << >>])
                    ms == [measurements EXCEPT
                              ![entry.original_device_class] = acc.records]
                    k == NextSensor(plant_devices[i].entries, e + 1)
               IN  /\ measurements' = ms
                   /\ measurement_errors' = acc.errors
                   /\ ret' = ret
                   /\ IF k = 0
                      THEN PlantDone(ms)
                      ELSE /\ e' = k
                           /\ pc' = "history"
                           /\ UNCHANGED <<i, jts_doc>>
    /\ UNCHANGED <<env_vars, fn_vars, reg_calls, search_calls, upload_calls,
                   last_state_queries, location, plant_devices, plant_entity_id, opb_pid, res,
                   caught_exception, latest_data, window, warnings>>

\* Lines 378-397: the warnings logged when nothing was uploaded.
StalenessWarnings(ld, t) ==
    IF ld.kind = "ts"
    THEN IF (t - ld.t) \div Days(1) > 3 /\ Weekday(t) = 4
         THEN {"stale"} ELSE {}
    ELSE IF Weekday(t) = 6 THEN {"never"} ELSE {}

\* Lines 365-399 without the upload: the loop is over.
AfterLoop ==
    /\ pc = "after_loop"
    /\ IF HasPayload(jts_doc)
       THEN /\ pc' = "upload"
            /\ UNCHANGED <<ret, warnings>>
       ELSE IF latest_data.kind = "unbound"
       THEN /\ pc' = "raised"
            /\ ret' = Raises("UnboundLocalError")
            /\ warnings' = warnings
       ELSE /\ warnings' = warnings \cup StalenessWarnings(latest_data, now)
            /\ ret' = ReturnsNone
            /\ pc' = "done"
    /\ UNCHANGED <<env_vars, call_logs, fn_vars, location, plant_devices, i,
                   plant_entity_id, opb_pid, res, caught_exception, latest_data,
                   window, measurements, e, measurement_errors, jts_doc>>

\* Lines 369-375: async_plant_data_upload returns or raises.
UploadReturns ==
    /\ pc = "upload"
    /\ \/ \E r \in BOOLEAN :
            /\ upload_calls' = Append(upload_calls,
                   [doc |-> jts_doc, raises |-> FALSE, result |-> r])
            /\ ret' = Returns(r)
            /\ pc' = "done"
       \/ /\ upload_calls' = Append(upload_calls,
                 [doc |-> jts_doc, raises |-> TRUE, result |-> FALSE])
          /\ ret' = Raises("UploadError")
          /\ pc' = "raised"
    /\ UNCHANGED <<env_vars, fn_vars, reg_calls, search_calls, history_queries,
                   last_state_queries, location, plant_devices, i, plant_entity_id, opb_pid, res,
                   caught_exception, latest_data, window, measurements, e,
                   measurement_errors, jts_doc, warnings>>

Next ==
    \/ Start
    \/ NextPlant
    \/ LastStateReturns
    \/ RegisterReturns
    \/ SearchReturns
    \/ RetryReturns
    \/ ParseResponse
    \/ HistoryReturns
    \/ AfterLoop
    \/ UploadReturns

Spec == Init /\ [][Next]_vars

\* ------------------------------------- the cycle under every option set

\* The location flags of entry.options, in every combination.
LocationOptions == [country : BOOLEAN, coord : BOOLEAN]

\* A run over a registry of one plant device, for each setting of the flags.
LocationInit ==
    /\ RunInit(LocationOptions, {Friday}, { << Device("plant", 1) >> })
    /\ state = NoState
    /\ validated = << >>
    /\ window_in = NoWindowIn
    /\ window_out = << >>
    /\ NoSchedule

SpecLocation == LocationInit /\ [][Next]_vars

\* ------------------------------------------- the validator on its own

\* The run's variables while a function is checked on its own: no run is made.
NoRun ==
    /\ RunInit({[country |-> FALSE, coord |-> FALSE]}, {Friday}, {<< >>})
    /\ hass_data

DeviceClasses == OPB_MEASUREMENTS_TO_UPLOAD \cup {"battery", NONE}
Units == {CELSIUS, FAHRENHEIT, KELVIN, PERCENTAGE, LIGHT_LUX,
          MICROSIEMENS_PER_CM, NONE}
StateStrings == DOMAIN FloatTenths \cup {"abc", "unknown"}

ValidateInit ==
    /\ NoRun
    /\ state \in { St(s, dc, u, Friday) :
                     s \in StateStrings, dc \in DeviceClasses, u \in Units }
    /\ validated = << >>
    /\ window_in = NoWindowIn
    /\ window_out = << >>
    /\ NoSchedule

\* get_supported_state_value is called with the state.
Validate ==
    /\ validated = << >>
    /\ validated' = << get_supported_state_value(state) >>
    /\ UNCHANGED <<run_vars, state, window_in, window_out, sched_vars>>

SpecValidate == ValidateInit /\ [][Validate]_vars

\* ---------------------------------------------- the window on its own

\* How long before the reading of the clock the watermark lies, in ticks:
\* around the present (the watermark may lie in the future), around seven
\* days, and some days between and beyond.
WatermarkAges ==
    (-Seconds(2) .. Seconds(2))
    \cup ((Days(7) - Seconds(1)) .. (Days(7) + Seconds(2)))
    \cup { -Seconds(3600), Seconds(3600), Days(1), Days(3), Days(10) }

WindowInit ==
    /\ NoRun
    /\ state = NoState
    /\ validated = << >>
    /\ \E t \in {Friday, Friday + 1, Days(104)} :
         window_in \in { [latest_data |-> ld, now |-> t] :
                           ld \in {LatestAbsent}
                                  \cup { LatestAt(t - a) : a \in WatermarkAges } }
    /\ window_out = << >>
    /\ NoSchedule

\* Lines 263-281 are run on the latest_data and the reading of the clock.
ComputeWindow ==
    /\ window_out = << >>
    /\ window_out' = << QueryWindow(window_in.latest_data, window_in.now) >>
    /\ UNCHANGED <<run_vars, state, validated, window_in, sched_vars>>

SpecWindow == WindowInit /\ [][ComputeWindow]_vars

\* ------------------------------------------------- the upload schedule

\* The triggers of a run: the timer set for UPLOAD_WAIT_AFTER_RESTART, the
\* listener of UPLOAD_TIME_INTERVAL, and the service call (call is given).
Triggers == {"delayed", "interval", "service"}

ScheduleInit ==
    /\ NoRun
    /\ state = NoState
    /\ validated = << >>
    /\ window_in = NoWindowIn
    /\ window_out = << >>
    /\ NoSchedule

\* Lines 402-450: async_setup_upload_schedule is called while the option
\* FLOW_UPLOAD_DATA is upload_sensors.
Setup ==
    /\ setups < MaxSetups
    /\ setups' = setups + 1
    /\ \E upload_sensors \in BOOLEAN :
         IF upload_sensors
         THEN /\ delayed_calls' = delayed_calls \cup {setups'}
              /\ upload_listeners' = upload_listeners \cup {setups'}
              /\ remove_upload_listener' = setups'
              /\ on_unload' = on_unload \cup {setups'}
         ELSE /\ IF remove_upload_listener # 0
                 THEN upload_listeners'
                        = upload_listeners \ {remove_upload_listener}
                 ELSE upload_listeners' = upload_listeners
              /\ remove_upload_listener' = 0
              /\ UNCHANGED <<delayed_calls, on_unload>>
    /\ UNCHANGED <<run_vars, state, validated, window_in, window_out,
                   started, runs>>

\* Lines 406-409 and 113-163: a trigger calls plant_data_upload, which runs up
\* to its first await and is suspended there, or ends before any await (no
\* plant device with a plant entity).
BeginRun(trigger) ==
    /\ started < MaxRuns
    /\ started' = started + 1
    /\ \E suspends \in BOOLEAN :
         runs' = IF suspends
                 THEN runs \cup {[id |-> started', trigger |-> trigger]}
                 ELSE runs

\* The timer of line 421 fires: upload_data is called, once.
DelayedFires ==
    /\ \E t \in delayed_calls : delayed_calls' = delayed_calls \ {t}
    /\ BeginRun("delayed")
    /\ UNCHANGED <<run_vars, state, validated, window_in, window_out, setups,
                   upload_listeners, remove_upload_listener, on_unload>>

\* A listener of line 432 fires: upload_data is called.  The timer the same
\* setup call set has fired before (5 minutes against 1 day).
IntervalFires ==
    /\ \E l \in upload_listeners : l \notin delayed_calls
    /\ BeginRun("interval")
    /\ UNCHANGED <<run_vars, state, validated, window_in, window_out, setups,
                   upload_listeners, delayed_calls, remove_upload_listener,
                   on_unload>>

\* The upload service is called: plant_data_upload(hass, entry, call).
ServiceCall ==
    /\ BeginRun("service")
    /\ UNCHANGED <<run_vars, state, validated, window_in, window_out, setups,
                   upload_listeners, delayed_calls, remove_upload_listener,
                   on_unload>>

\* A suspended run is resumed for the last time and ends (lines 375, 399, or
\* an exception).
RunEnds ==
    /\ \E r \in runs : runs' = runs \ {r}
    /\ UNCHANGED <<run_vars, state, validated, window_in, window_out, setups,
                   upload_listeners, delayed_calls, remove_upload_listener,
                   on_unload, started>>

\* The entry is unloaded: the callables given to entry.async_on_unload at
\* line 440 are called.
Unload ==
    /\ on_unload # {}
    /\ upload_listeners' = upload_listeners \ on_unload
    /\ on_unload' = {}
    /\ UNCHANGED <<run_vars, state, validated, window_in, window_out, setups,
                   delayed_calls, remove_upload_listener, started, runs>>

NextSchedule ==
    \/ Setup
    \/ DelayedFires
    \/ IntervalFires
    \/ ServiceCall
    \/ RunEnds
    \/ Unload

SpecSchedule == ScheduleInit /\ [][NextSchedule]_vars

\* ------------------------------------------------ what the calls show

\* The calls made for the plant instance p, in order.
RegCallsOf(p) == SelectSeq(reg_calls, LAMBDA c : c.plant = p)
SearchesOf(p) == SelectSeq(search_calls, LAMBDA c : c.plant = p)
QueriesOf(p) == SelectSeq(history_queries, LAMBDA c : c.plant = p)

\* A history query was made for a sensor of p.
Queried(p) == QueriesOf(p) # << >>

\* The series of a document that carry the remote id of p.
SeriesOf(doc, p) ==
    { k \in 1..Len(doc) : doc[k].identifier = CustomId(p) }

\* The documented range of each series name.
InDocRange(name, v) ==
    CASE name = "temp" -> -50 <= v /\ v <= 70
      [] name = "env_humid" -> 0 <= v /\ v <= 100
      [] name = "soil_moist" -> 0 <= v /\ v <= 100
      [] name = "light_lux" -> 0 <= v /\ v <= 200000
      [] name = "soil_ec" -> 0 <= v /\ v <= 3000

\* A search response with exactly one result, whose display_pid is pid.
OneMatch(r, pid) ==
    /\ ~r.raises
    /\ r.count = 1
    /\ Len(r.results) = 1
    /\ r.results[1].display_pid = pid

\* A registration response the run can go on with.
Usable(r) ==
    r.kind = "ok" /\ r.wellformed /\ r.latest_data.kind # "malformed"

\* ------------------------------------------------------------------ C1

\* C1: none of the failures the claim names makes the run end by raising: not
\* the errors list of a ValidationError (IndexError), a plant state without
\* species_original (KeyError), a registration response whose latest_data
\* cannot be read (AttributeError), nor the upload call raising.
C1_NoFailurePropagates ==
    ret.kind = "raised"
        => ret.exception \notin {"IndexError", "KeyError", "AttributeError",
                                 "UploadError"}

\* ------------------------------------------------------------------ C2

\* C2: a search is made only after the first registration failed with
\* invalid_pid; when it returns exactly one result whose display_pid is the
\* original pid, the registration is retried with that result's pid and, if the
\* retry succeeds, the plant's sensors are queried; otherwise no retry is made
\* and the plant is skipped (no query, no series, the loop has moved on).
C2_RegistrationFallback ==
    \A k \in 1..Len(plant_devices) :
        LET p == plant_devices[k].id
            regs == RegCallsOf(p)
            srch == SearchesOf(p)
        IN  \A j \in 1..Len(srch) :
              /\ regs # << >>
              /\ regs[1].response.kind = "ValidationError"
              /\ regs[1].response.errors # << >>
              /\ regs[1].response.errors[1] = "invalid_pid"
              /\ srch[j].search_text = regs[1].pid
              /\ IF OneMatch(srch[j].response, regs[1].pid)
                 THEN \/ pc = "register_retry" /\ i = k /\ Len(regs) = 1
                      \/ /\ Len(regs) = 2
                         /\ regs[2].pid = srch[j].response.results[1].pid
                         /\ (Usable(regs[2].response) /\ k < i) => Queried(p)
                         /\ regs[2].response.kind # "ok" =>
                               (k < i /\ ~Queried(p))
                 ELSE /\ Len(regs) = 1
                      /\ ~Queried(p)
                      /\ SeriesOf(jts_doc, p) = {}
                      /\ k < i

\* A plant registered by the retry, with the corrected pid, had its sensors
\* queried, and another plant whose search returned two results was skipped.
C2_Witness ==
    \E k1, k2 \in 1..Len(plant_devices) :
        LET regs == RegCallsOf(plant_devices[k1].id)
            srch == SearchesOf(plant_devices[k2].id)
        IN  /\ Len(regs) = 2
            /\ regs[1].pid = PID
            /\ regs[2].pid = CorrectedPID
            /\ regs[2].response.kind = "ok"
            /\ Queried(plant_devices[k1].id)
            /\ k1 < i
            /\ srch # << >>
            /\ srch[1].response.count = 2
            /\ k2 < i

\* ------------------------------------------------------------------ C3

\* The registration of plant instance p failed for good: the first call
\* failed otherwise than with invalid_pid, or the fallback failed.
RegistrationFailed(p) ==
    LET regs == RegCallsOf(p)
        srch == SearchesOf(p)
    IN  /\ regs # << >>
        /\ \/ regs[1].response.kind = "Exception"
           \/ /\ regs[1].response.kind = "ValidationError"
              /\ \/ regs[1].response.errors = << >>
                 \/ regs[1].response.errors[1] # "invalid_pid"
           \/ \E j \in 1..Len(srch) : ~OneMatch(srch[j].response, regs[1].pid)
           \/ Len(regs) = 2 /\ regs[2].response.kind # "ok"

\* C3: a plant whose registration failed for good is skipped (no history
\* query, no series with its id) and the plants after it are still processed:
\* the run does not end at that plant while plants remain.
C3_FailedPlantSkippedOthersProcessed ==
    \A k \in 1..Len(plant_devices) :
        RegistrationFailed(plant_devices[k].id) =>
            /\ ~Queried(plant_devices[k].id)
            /\ SeriesOf(jts_doc, plant_devices[k].id) = {}
            /\ ~(pc = "raised" /\ i = k /\ k < Len(plant_devices))

\* ------------------------------------------------------------------ C4

\* The records the states of an answered history query yield: those of the
\* states that are not left out and validate without error.
AcceptedRecords(q) ==
    { [ts |-> q.history[n].last_updated,
       value |-> get_supported_state_value(q.history[n]).value] :
        n \in { m \in 1..Len(q.history) :
                  /\ q.history[m].state \notin {"unknown", "unavailable"}
                  /\ q.history[m].last_updated # q.start
                  /\ ~Truthy(get_supported_state_value(q.history[m]).state_error) } }

\* The records plant instance p has for the series of device class dc.
ExpectedRecords(p, dc) ==
    UNION { AcceptedRecords(history_queries[n]) :
              n \in { m \in 1..Len(history_queries) :
                        /\ history_queries[m].plant = p
                        /\ history_queries[m].original_device_class = dc
                        /\ ~history_queries[m].raises } }

RecordSet(series) == { series.records[n] : n \in 1..Len(series.records) }

\* doc holds exactly the non-empty series of every plant whose sensors were
\* queried, each once and with all its records.
IsFullBatch(doc) ==
    /\ \A k \in 1..Len(plant_devices) :
         \A dc \in OPB_MEASUREMENTS_TO_UPLOAD :
           LET p == plant_devices[k].id
               hits == { n \in 1..Len(doc) :
                           /\ doc[n].identifier = CustomId(p)
                           /\ doc[n].name = SeriesName(dc) }
           IN  IF ExpectedRecords(p, dc) = {}
               THEN hits = {}
               ELSE /\ Cardinality(hits) = 1
                    /\ \A n \in hits :
                         /\ RecordSet(doc[n]) = ExpectedRecords(p, dc)
                         /\ Len(doc[n].records)
                              = Cardinality(ExpectedRecords(p, dc))
    /\ \A n \in 1..Len(doc) :
         \E k \in 1..Len(plant_devices) :
            doc[n].identifier = CustomId(plant_devices[k].id)

\* C4: the upload is called at most once, after the last plant, with a
\* non-empty document that is the full batch, and the run returns what the
\* call returned; a run that returns a result made the call.
C4_UploadOnceFullBatch ==
    /\ Len(upload_calls) <= 1
    /\ upload_calls # << >> =>
         /\ i > Len(plant_devices)
         /\ upload_calls[1].doc # << >>
         /\ upload_calls[1].doc = jts_doc
         /\ IsFullBatch(upload_calls[1].doc)
         /\ ~upload_calls[1].raises =>
               (pc = "done" /\ ret = Returns(upload_calls[1].result))
    /\ ret.kind = "result" => upload_calls # << >>
    /\ pc \in {"called", "loop", "last_state", "register", "search",
               "register_retry", "registered", "history", "after_loop"}
         => upload_calls = << >>

\* Two plants were processed and the one upload carried series of both.
C4_Witness ==
    /\ pc = "done"
    /\ Len(upload_calls) = 1
    /\ Len(plant_devices) = 2
    /\ SeriesOf(upload_calls[1].doc, plant_devices[1].id) # {}
    /\ SeriesOf(upload_calls[1].doc, plant_devices[2].id) # {}
    /\ ret = Returns(TRUE)

\* ------------------------------------------------------------------ C5

\* C5: a run whose batch is empty after the last plant ends by returning none
\* without an upload call.
C5_EmptyBatchReturnsNone ==
    (pc \in {"done", "raised"} /\ i > Len(plant_devices) /\ jts_doc = << >>)
        => (ret = ReturnsNone /\ upload_calls = << >>)

\* ------------------------------------------------------------------ C6

\* C6: every record of every series of the batch has a value within the
\* documented range of the series' measurement.
C6_BatchValuesInRange ==
    \A n \in 1..Len(jts_doc) :
        \A m \in 1..Len(jts_doc[n].records) :
            LET v == jts_doc[n].records[m].value
            IN  v # << >> /\ InDocRange(jts_doc[n].name, v[1])

\* ------------------------------------------------------------------ C7

\* C7 as claimed: whatever the validator returns for a state of a supported
\* measurement, the value returned is within that measurement's range.
C7_NeverReturnsOutOfRange ==
    validated # << >> =>
        ((state.device_class \in OPB_MEASUREMENTS_TO_UPLOAD
          /\ validated[1].value # << >>)
            => InDocRange(SeriesName(state.device_class),
                          validated[1].value[1]))

\* C7 as amended: a value the validator returns without an error is of a
\* supported measurement and within that measurement's range.
C7_AcceptedValueInRange ==
    validated # << >> =>
        ((~Truthy(validated[1].state_error) /\ validated[1].value # << >>)
            => /\ state.device_class \in OPB_MEASUREMENTS_TO_UPLOAD
               /\ InDocRange(SeriesName(state.device_class),
                             validated[1].value[1]))

\* A conductivity at the top of its range was accepted.
C7_Witness ==
    /\ validated = << [value |-> <<3000>>, state_error |-> NONE] >>
    /\ state.device_class = "conductivity"

\* --------------------------------------------------------- C8, C9, C10

\* C8: the window computed has start <= end.
C8_StartNotAfterEnd ==
    window_out # << >> => window_out[1].start <= window_out[1].end

\* C9 as claimed: a watermark t with now - t > 7 days gives the window
\* [now - 7 days, now).
C9_CappedWhenWatermarkOlderThan7Days ==
    (window_out # << >> /\ window_in.latest_data.kind = "ts"
     /\ window_in.now - window_in.latest_data.t > Days(7))
        => window_out[1] = [start |-> window_in.now - Days(7),
                            end |-> window_in.now]

\* C9 as amended: a watermark t with now - (t + 1 s) > 7 days gives the window
\* [now - 7 days, now).
C9_CappedWhenStartOlderThan7Days ==
    (window_out # << >> /\ window_in.latest_data.kind = "ts"
     /\ window_in.now - (window_in.latest_data.t + Seconds(1)) > Days(7))
        => window_out[1] = [start |-> window_in.now - Days(7),
                            end |-> window_in.now]

\* The window of a watermark ten days old was computed.
C9_Witness ==
    /\ window_out # << >>
    /\ window_in.latest_data = LatestAt(window_in.now - Days(10))
    /\ window_out[1].start = window_in.now - Days(7)

\* C10: a watermark t with now - (t + 1 s) <= 7 days gives the window
\* [t + 1 s, now).
C10_WindowFromWatermark ==
    (window_out # << >> /\ window_in.latest_data.kind = "ts"
     /\ window_in.now - (window_in.latest_data.t + Seconds(1)) <= Days(7))
        => window_out[1] = [start |-> window_in.latest_data.t + Seconds(1),
                            end |-> window_in.now]

\* The window of a watermark one hour old was computed.
C10_Witness ==
    /\ window_out # << >>
    /\ window_in.latest_data = LatestAt(window_in.now - Seconds(3600))
    /\ window_out[1].start = window_in.now - Seconds(3600) + Seconds(1)

\* ----------------------------------------------------------------- C11

\* C11: no record of an assembled series carries the instant the window of its
\* plant's history queries starts at: neither in the series of the document
\* nor in the series of the plant being assembled.
C11_StartReadingExcluded ==
    /\ \A n \in 1..Len(jts_doc) :
         \A m \in 1..Len(history_queries) :
           CustomId(history_queries[m].plant) = jts_doc[n].identifier =>
             \A r \in 1..Len(jts_doc[n].records) :
                jts_doc[n].records[r].ts # history_queries[m].start
    /\ pc = "history" =>
         \A dc \in OPB_MEASUREMENTS_TO_UPLOAD :
            \A r \in 1..Len(measurements[dc]) :
               measurements[dc][r].ts # window.start

\* A history whose first state, a valid 21.4 degrees Celsius, is dated at the
\* start of the window was assembled: the series holds the later reading only.
C11_Witness ==
    \E m \in 1..Len(history_queries) :
        LET q == history_queries[m]
        IN  /\ ~q.raises
            /\ q.history # << >>
            /\ q.history[1] = St("21.4", "temperature", CELSIUS, q.start)
            /\ \E n \in 1..Len(jts_doc) :
                 /\ jts_doc[n].identifier = CustomId(q.plant)
                 /\ jts_doc[n].name = "temp"
                 /\ jts_doc[n].records
                      = << [ts |-> q.start + Seconds(60), value |-> <<27>>] >>

\* ----------------------------------------------------------------- C12

\* The history queries that were answered, in order.
AnsweredQueries == SelectSeq(history_queries, LAMBDA q : ~q.raises)

\* C12: a state whose state string is not a number leaves no record in a
\* series (no record without a value), and every entry of measurement_errors
\* comes from a state of the entry's history that is a number and failed the
\* unit, range or device-class check.
C12_ParseFailureSilentlyDropped ==
    /\ \A dc \in OPB_MEASUREMENTS_TO_UPLOAD :
         \A r \in 1..Len(measurements[dc]) : measurements[dc][r].value # << >>
    /\ AnsweredQueries # << >> =>
         LET q == AnsweredQueries[Len(AnsweredQueries)]
         IN  \A j \in 1..Len(measurement_errors) :
               \E n \in 1..Len(q.history) :
                  /\ ~SkipsState(q.history[n], q.start)
                  /\ IsNumber(q.history[n].state)
                  /\ get_supported_state_value(q.history[n]).state_error
                        = measurement_errors[j]

\* ----------------------------------------------------------------- C13

\* C13: every series of the document, and of the document an upload call was
\* given, holds at least one record.
C13_NoEmptySeriesInBatch ==
    /\ \A n \in 1..Len(jts_doc) : Len(jts_doc[n].records) >= 1
    /\ \A c \in 1..Len(upload_calls) :
         \A n \in 1..Len(upload_calls[c].doc) :
            Len(upload_calls[c].doc[n].records) >= 1

\* A humidity sensor whose only reading in the window was 150 % contributed no
\* series to the document uploaded, while its plant's temperature series is
\* in it.
C13_Witness ==
    /\ Len(upload_calls) = 1
    /\ \E m \in 1..Len(history_queries) :
         LET q == history_queries[m]
         IN  /\ ~q.raises
             /\ q.history = << St("150", "humidity", PERCENTAGE,
                                  q.start + Seconds(60)) >>
             /\ \E n \in SeriesOf(upload_calls[1].doc, q.plant) :
                  upload_calls[1].doc[n].name = "temp"
             /\ \A n \in SeriesOf(upload_calls[1].doc, q.plant) :
                  upload_calls[1].doc[n].name # "env_humid"

\* ----------------------------------------------------------------- C14

\* C14: at most one run of plant_data_upload is pending at any time: no
\* trigger begins a run while another run is suspended.
C14_AtMostOneRunInProgress == Cardinality(runs) <= 1

\* ----------------------------------------------------------------- C15

\* C15: every registration call of the cycle, the first attempt and the
\* retry, passes a country only when the country option is set and a longitude
\* or latitude only when the coordinates option is set.
C15_LocationSentOnlyIfEnabled ==
    \A n \in 1..Len(reg_calls) :
        /\ reg_calls[n].location_country # NONE => options.country
        /\ reg_calls[n].location_lon # NONE => options.coord
        /\ reg_calls[n].location_lat # NONE => options.coord

\* With the coordinates option set and the country option unset, the first
\* registration and the retry were both made with coordinates and no country.
C15_Witness ==
    /\ options = [country |-> FALSE, coord |-> TRUE]
    /\ Len(reg_calls) = 2
    /\ reg_calls[2].pid = CorrectedPID
    /\ \A n \in 1..2 :
         /\ reg_calls[n].location_country = NONE
         /\ reg_calls[n].location_lon = HassConfig.longitude
         /\ reg_calls[n].location_lat = HassConfig.latitude

\* ----------------------------------------------------------------- C16

\* C16: a registration result without latest_data gives the window
\* [now - 1 day, now).
C16_FirstUploadWindowIsOneDay ==
    (window_out # << >> /\ window_in.latest_data.kind = "absent")
        => window_out[1] = [start |-> window_in.now - Days(1),
                            end |-> window_in.now]

\* The window of an absent latest_data was computed.
C16_Witness ==
    /\ window_out # << >>
    /\ window_in.latest_data = LatestAbsent
    /\ window_out[1].end - window_out[1].start = Days(1)

\* ----------------------------------------------------------------- C17

\* C17: for every plant of the cycle there are at most two registration calls
\* and at most one search; a search was made only if the first registration
\* raised a ValidationError whose first code is invalid_pid; a second
\* registration was made only if the search returned exactly one matching
\* result; after a failed search or a failed second registration the loop has
\* left the plant; and no call is made for a plant the loop has not reached.
C17_BoundedTwoStepRegistration ==
    \A k \in 1..Len(plant_devices) :
        LET p == plant_devices[k].id
            regs == RegCallsOf(p)
            srch == SearchesOf(p)
        IN  /\ Len(regs) <= 2
            /\ Len(srch) <= 1
            /\ srch # << >> =>
                  /\ regs # << >>
                  /\ regs[1].response.kind = "ValidationError"
                  /\ regs[1].response.errors # << >>
                  /\ regs[1].response.errors[1] = "invalid_pid"
            /\ Len(regs) = 2 =>
                  /\ Len(srch) = 1
                  /\ OneMatch(srch[1].response, regs[1].pid)
            /\ (Len(regs) = 2 /\ regs[2].response.kind # "ok") => k < i
            /\ (srch # << >> /\ ~OneMatch(srch[1].response, regs[1].pid)) =>
                  (k < i /\ Len(regs) = 1)
            /\ (k > i \/ pc = "called") => (regs = << >> /\ srch = << >>)

\* The cycle ended after a plant whose first registration failed with
\* invalid_pid, whose search matched and whose second registration failed
\* with invalid_pid again: two registrations and one search, no more.
C17_Witness ==
    /\ pc \in {"done", "raised"}
    /\ ret.kind # "pending"
    /\ \E k \in 1..Len(plant_devices) :
         LET regs == RegCallsOf(plant_devices[k].id)
             srch == SearchesOf(plant_devices[k].id)
         IN  /\ Len(regs) = 2
             /\ Len(srch) = 1
             /\ regs[2].response.kind = "ValidationError"
             /\ regs[2].response.errors = <<"invalid_pid">>

\* ----------------------------------------------------------------- C18

\* The plant device has no entity of the plant domain.
NoPlantEntity(d) == PlantEntry(d.entries, 1) = 0

\* get_last_state_changes found no state for the plant entity of instance p.
NoRecordedState(p) ==
    \E n \in 1..Len(last_state_queries) :
        /\ last_state_queries[n].plant = p
        /\ last_state_queries[n].response.kind = "empty"

\* C18: for a plant device without a plant entity, or whose plant entity has
\* no recorded state, no registration call, search or history query is made
\* and no series is added; the state of an entity it does not have is never
\* asked for; the loop leaves the device at once and the run does not end at it.
C18_UndiscoveredPlantSkipped ==
    \A k \in 1..Len(plant_devices) :
        LET p == plant_devices[k].id
        IN  /\ (NoPlantEntity(plant_devices[k]) \/ NoRecordedState(p)) =>
                  /\ RegCallsOf(p) = << >>
                  /\ SearchesOf(p) = << >>
                  /\ ~Queried(p)
                  /\ SeriesOf(jts_doc, p) = {}
                  /\ ~(pc \in {"raised", "done"} /\ i = k)
            /\ NoRecordedState(p) => k < i
            /\ NoPlantEntity(plant_devices[k]) =>
                  \A n \in 1..Len(last_state_queries) :
                     last_state_queries[n].plant # p

\* A plant device whose plant entity has no recorded state was skipped and
\* the plant device after it was registered.
C18_Witness ==
    /\ Len(plant_devices) = 2
    /\ NoRecordedState(plant_devices[1].id)
    /\ RegCallsOf(plant_devices[2].id) # << >>

\* ----------------------------------------------------------------- C19

\* The latest_data values the registrations of the cycle answered with.
KnownLatestData ==
    { reg_calls[n].response.latest_data :
        n \in { m \in 1..Len(reg_calls) : Usable(reg_calls[m].response) } }

\* C19: a cycle that ended by returning, with or without an upload, has
\* logged the staleness warning if it is Friday (weekday 4) and a plant's
\* latest_data is more than 3 days old, and the never-uploaded warning if it
\* is Sunday (weekday 6) and a plant's latest_data was never set.
C19_WarningWhateverTheOutcome ==
    pc = "done" =>
        /\ (Weekday(now) = 4
             /\ \E ld \in KnownLatestData :
                   ld.kind = "ts" /\ (now - ld.t) \div Days(1) > 3)
               => "stale" \in warnings
        /\ (Weekday(now) = 6 /\ \E ld \in KnownLatestData : ld.kind = "absent")
               => "never" \in warnings

\* ----------------------------------------------------------------- C20

\* The state given is a temperature in Fahrenheit or Kelvin whose state
\* string is a number, and the validator has returned.
ConvertedTemperature ==
    /\ validated # << >>
    /\ state.device_class = "temperature"
    /\ state.unit_of_measurement \in {FAHRENHEIT, KELVIN}
    /\ IsNumber(state.state)

\* The reading, in tenths, converted to degrees Celsius and rounded.
DirectCelsius(tenths, unit) ==
    IF unit = FAHRENHEIT
    THEN PyRound((tenths - 320) * 5, 90)
    ELSE PyRound(tenths * 10 - 27315, 100)

\* The validator accepted the value c, or rejected the state, according to
\* whether c is within [-50, 70].
OutcomeIs(c) ==
    IF -50 <= c /\ c <= 70
    THEN validated[1] = [value |-> <<c>>, state_error |-> NONE]
    ELSE Truthy(validated[1].state_error)

\* A temperature in a unit other than Fahrenheit, Kelvin or Celsius is
\* rejected.
OtherUnitRejected ==
    (validated # << >> /\ state.device_class = "temperature"
     /\ state.unit_of_measurement \notin {FAHRENHEIT, KELVIN, CELSIUS})
        => (validated[1].value = << >> \/ Truthy(validated[1].state_error))

\* C20 as claimed: the outcome for a Fahrenheit or Kelvin reading v is that of
\* converting v, rounding the result and checking it against [-50, 70], and
\* the value accepted is that integer.
C20_ConvertReadingThenCheck ==
    /\ ConvertedTemperature =>
          OutcomeIs(DirectCelsius(FloatTenths[state.state],
                                  state.unit_of_measurement))
    /\ OtherUnitRejected

\* C20 as amended: the reading is first rounded to an integer v (ties to
\* even); the outcome is that of converting v, rounding the result and
\* checking it against [-50, 70], and the value accepted is that integer.
C20_ConvertRoundedReadingThenCheck ==
    /\ ConvertedTemperature =>
          OutcomeIs(DirectCelsius(10 * PyRound(FloatTenths[state.state], 10),
                                  state.unit_of_measurement))
    /\ OtherUnitRejected

\* 98.6 degrees Fahrenheit was accepted as 37.
C20_Witness ==
    /\ state.state = "98.6"
    /\ state.device_class = "temperature"
    /\ state.unit_of_measurement = FAHRENHEIT
    /\ validated = << [value |-> <<37>>, state_error |-> NONE] >>

\* ----------------------------------------------------------------- C21

\* The last call of async_setup_upload_schedule found the upload option
\* disabled: only the enabled branch stores a callable at line 439 and the
\* disabled branch leaves None there.
LastSetupDisabled == setups > 0 /\ remove_upload_listener = 0

\* C21: once the setup has run with the option disabled no trigger of the
\* schedule is left (no periodic listener is active and no startup-delayed
\* upload is pending), and at most one periodic listener is active after any
\* sequence of setup calls.
C21_DisabledSetupCancelsSchedule ==
    /\ LastSetupDisabled => (upload_listeners = {} /\ delayed_calls = {})
    /\ Cardinality(upload_listeners) <= 1

====
